---- MODULE Spec2Model ----
(***************************************************************************)
(* A model of the inoyb command-line tool: project validation and image    *)
(* naming (docker/builder.py), the configuration store (docker/config.py)  *)
(* and the command layer (cli.py).                                         *)
(*                                                                         *)
(* Strings that the code inspects character by character (model names,     *)
(* image tags) are sequences of one-character strings.  Messages that the  *)
(* code only prints are short ASCII labels; the original message is given  *)
(* in the comment next to the label.                                       *)
(***************************************************************************)
EXTENDS Integers, Sequences, FiniteSets, TLC

VARIABLES
    project,     \* the project directory handed to validate_project
    vresult,     \* what validate_project returned or raised for it
    disk,        \* ~/.inoyb/config.json
    config,      \* DockerConfig.config of the live instance
    fresh,       \* the live instance was created after the last mutation
    lastOp,      \* the last mutation of the configuration record
    shown,       \* what the last "config list" printed
    engine,      \* the images the container engine holds, one entry per tag
    phase,       \* which image operation has run
    keep,        \* keep_count of the last cleanup_old_images call
    listed,      \* what list_local_images returned last
    list_error,  \* list_local_images logged a failure
    list_filter, \* project_filter of the last list_local_images call
    attempted,   \* the tags remove_image was called with, in order
    failed,      \* the tags whose removal the engine refused
    removed_count, \* what cleanup_old_images returned
    model_name,  \* the model name handed to generate_image_name
    image_names, \* the names generate_image_name returned for it, in order
    version_info, \* sys.version_info of the running interpreter
    gen_args,    \* has_examples of the generate_dockerfile call
    templates,   \* the project-level and the bundled template of the variant asked for
    base_image,  \* what get_python_version returned, "" before the call
    generated,   \* what generate_dockerfile returned or raised
    cmd,         \* the command line of this run
    pc,          \* where the command is
    dockerfile,  \* Dockerfile.inoyb in the project directory
    wrote,       \* build_image opened Dockerfile.inoyb for writing
    build_calls, \* calls of client.images.build
    push_calls,  \* calls of manager.push_image
    image_tag,   \* full_image_name of this build
    pending_exc, \* the exception on its way to the command's handler
    reported,    \* a failure was printed or logged as an error
    exit_code    \* the exit status, -1 while the command runs

valVars == <<project, vresult>>
cfgVars == <<disk, config, fresh, lastOp, shown>>
imgVars == <<engine, phase, keep, listed, list_error, list_filter, attempted,
             failed, removed_count>>
nameVars == <<model_name, image_names>>
pyVars == <<version_info, gen_args, templates, base_image, generated>>
cliVars == <<cmd, pc, dockerfile, wrote, build_calls, push_calls, image_tag,
             pending_exc,
             reported, exit_code>>
vars == <<valVars, cfgVars, imgVars, nameVars, pyVars, cliVars>>

\* what an action of one component leaves alone
notVal == <<cfgVars, imgVars, nameVars, pyVars, cliVars>>
notCfg == <<valVars, imgVars, nameVars, pyVars, cliVars>>
notImg == <<valVars, cfgVars, nameVars, pyVars, cliVars>>
notName == <<valVars, cfgVars, imgVars, pyVars, cliVars>>
notPy == <<valVars, cfgVars, imgVars, nameVars, cliVars>>

(***************************************************************************)
(* Bounds.                                                                 *)
(***************************************************************************)
\* longest model_info.name drawn for a manifest
MaxNameLen == 2
\* most image tags the engine holds
MaxImages == 3
\* creation timestamps are 1..MaxTime
MaxTime == 2
\* largest keep_count handed to cleanup_old_images
MaxKeep == 2

(***************************************************************************)
(* Generic helpers.                                                        *)
(***************************************************************************)
RECURSIVE SeqsUpTo(_, _)
\* all sequences over S of length at most n
SeqsUpTo(S, n) ==
    IF n = 0 THEN {<<>>}
    ELSE LET shorter == SeqsUpTo(S, n - 1)
         IN  shorter \cup {Append(s, c) : s \in shorter, c \in S}

Range(s) == {s[i] : i \in 1..Len(s)}

(***************************************************************************)
(* The project directory.                                                  *)
(***************************************************************************)
\* what a path is on disk: Path.exists() / is_file() / is_dir()
EntryKinds == {"absent", "file", "dir"}

\* names an entry of model/ or examples/ may have
EntryNames == {"model", "examples"}

\* builder.py:163
required_files == <<"gogogo.py", "mc.json", "requirements.txt">>

NoContents == [n \in EntryNames |-> "absent"]

\* a directory slot of the project: its kind and, for a directory, its entries
DirStates ==
    {[kind |-> k, contents |-> NoContents] : k \in {"absent", "file"}}
    \cup {[kind |-> "dir", contents |-> c] : c \in [EntryNames -> EntryKinds]}

\* characters of a model name: one whitespace character and one other
NameChars == {" ", "a"}

NoManifest ==
    [parse |-> "none", root |-> "other", has_model_info |-> FALSE,
     model_info |-> "other", has_name |-> FALSE, name_type |-> "other",
     name |-> <<>>]

\* the content of mc.json, as json.load sees it
Manifests ==
    {[NoManifest EXCEPT !.parse = "bad_json"],
     [NoManifest EXCEPT !.parse = "unreadable"],
     [NoManifest EXCEPT !.parse = "ok"],
     [NoManifest EXCEPT !.parse = "ok", !.root = "object"],
     [NoManifest EXCEPT !.parse = "ok", !.root = "object",
                        !.has_model_info = TRUE],
     [NoManifest EXCEPT !.parse = "ok", !.root = "object",
                        !.has_model_info = TRUE, !.model_info = "object"],
     [NoManifest EXCEPT !.parse = "ok", !.root = "object",
                        !.has_model_info = TRUE, !.model_info = "object",
                        !.has_name = TRUE]}
    \cup {[parse |-> "ok", root |-> "object", has_model_info |-> TRUE,
           model_info |-> "object", has_name |-> TRUE, name_type |-> "str",
           name |-> s] : s \in SeqsUpTo(NameChars, MaxNameLen)}

\* the three required files, each absent, a file or a directory
FileStates == [Range(required_files) -> EntryKinds]

\* mc.json has content to read only when it is a file
ManifestsOf(f) == IF f["mc.json"] = "file" THEN Manifests ELSE {NoManifest}

(***************************************************************************)
(* validate_project and its helpers.                                       *)
(***************************************************************************)
\* str.strip(): leading and trailing whitespace removed
RECURSIVE LStrip(_)
LStrip(s) == IF s # <<>> /\ Head(s) = " " THEN LStrip(Tail(s)) ELSE s

RECURSIVE RStrip(_)
RStrip(s) ==
    IF s # <<>> /\ s[Len(s)] = " " THEN RStrip(SubSeq(s, 1, Len(s) - 1)) ELSE s

Strip(s) == RStrip(LStrip(s))

\* list(directory.iterdir()): the names present in a directory
IterDir(contents) == {n \in EntryNames : contents[n] # "absent"}

\* True: the structure is right; False: a redundant nesting
check_nested_directories_any_child(d, dir_name) ==
    IF d.kind # "dir" THEN TRUE
    ELSE IF IterDir(d.contents) = {} THEN TRUE
    ELSE ~(\E n \in IterDir(d.contents) : d.contents[n] = "dir" /\ n = dir_name)

check_nested_directories(d, dir_name) ==
    IF d.kind # "dir" THEN TRUE
    ELSE LET contents == IterDir(d.contents)
         IN  IF contents = {} THEN TRUE
             ELSE IF Cardinality(contents) = 1
                     /\ \E n \in contents : d.contents[n] = "dir" /\ n = dir_name
                  THEN FALSE
                  ELSE TRUE

\* a line of the missing-files report: "f" or "f (不是文件)"
NotAFile(f) == f \o " (not a file)"

RECURSIVE missing_files(_, _)
\* the loop over required_files, from position i on
missing_files(files, i) ==
    IF i > Len(required_files) THEN <<>>
    ELSE LET file == required_files[i]
             rest == missing_files(files, i + 1)
         IN  IF files[file] = "absent" THEN <<file>> \o rest
             ELSE IF files[file] # "file" THEN <<NotAFile(file)>> \o rest
             ELSE rest

Raise(exc, reason, missing, warnings) ==
    [ok |-> FALSE, exc |-> exc, reason |-> reason, missing_files |-> missing,
     has_examples |-> FALSE, warnings |-> warnings]

\* isinstance(model_name, str) and model_name.strip()
NameAccepted_no_strip(mf) == mf.name_type = "str" /\ mf.name # <<>>

NameAccepted(mf) == mf.name_type = "str" /\ Strip(mf.name) # <<>>

\* steps 5 and 6: the reason the manifest is rejected for, "" when it passes
ManifestDefect(mf) ==
    IF mf.parse = "bad_json" THEN "mc_json_format"             \* mc.json格式错误
    ELSE IF mf.parse # "ok" THEN "mc_json_unreadable"          \* 无法读取mc.json
    ELSE IF mf.root # "object" THEN "root_not_object"          \* 根元素必须是对象
    ELSE IF ~mf.has_model_info THEN "missing_model_info"       \* 缺少model_info字段
    ELSE IF mf.model_info # "object" THEN "model_info_not_object" \* model_info必须是对象
    ELSE IF ~mf.has_name THEN "missing_name"                   \* 缺少model_info.name字段
    ELSE IF ~NameAccepted(mf) THEN "name_not_nonempty_string"  \* name必须是非空字符串
    ELSE ""

validate_project(p) ==
    LET missing == missing_files(p.files, 1)
        w1 == IF p.model.kind = "dir" /\ IterDir(p.model.contents) = {}
              THEN {"model_empty"} ELSE {}
        w2 == IF p.examples.kind = "file" THEN {"examples_not_dir"} ELSE {}
        has_examples == p.examples.kind = "dir"
    IN  IF missing # <<>>
        THEN Raise("FileNotFoundError", "missing_required_files", missing, {})
        ELSE IF p.model.kind = "absent"
        THEN Raise("FileNotFoundError", "missing_model_dir", <<>>, {})
        ELSE IF p.model.kind # "dir"
        THEN Raise("FileNotFoundError", "model_not_dir", <<>>, {})
        ELSE IF ~check_nested_directories(p.model, "model")
        THEN Raise("ValueError", "model_nested", <<>>, w1)
        ELSE IF has_examples /\ ~check_nested_directories(p.examples, "examples")
        THEN Raise("ValueError", "examples_nested", <<>>, w1 \cup w2)
        ELSE IF ManifestDefect(p.manifest) # ""
        THEN Raise("ValueError", ManifestDefect(p.manifest), <<>>, w1 \cup w2)
        ELSE [ok |-> TRUE, exc |-> "", reason |-> "", missing_files |-> <<>>,
              has_examples |-> has_examples, warnings |-> w1 \cup w2]

\* an empty directory
NoProject ==
    [files |-> [f \in Range(required_files) |-> "absent"],
     model |-> [kind |-> "absent", contents |-> NoContents],
     examples |-> [kind |-> "absent", contents |-> NoContents],
     manifest |-> NoManifest]

NoResult ==
    [ok |-> FALSE, exc |-> "", reason |-> "not_run", missing_files |-> <<>>,
     has_examples |-> FALSE, warnings |-> {}]

(***************************************************************************)
(* The configuration store (docker/config.py).                             *)
(***************************************************************************)
\* Python values of current_server: None or a string
PyNone == [t |-> "none", s |-> ""]
PyStr(s) == [t |-> "str", s |-> s]

\* JSON tokens json.dump writes for them: null or a quoted string
JsonNull == [tok |-> "null", chars |-> ""]
JsonString(s) == [tok |-> "string", chars |-> s]

\* json.dump of a value, json.load of a token
JsonDump(v) == IF v.t = "none" THEN JsonNull ELSE JsonString(v.s)
JsonLoad(j) == IF j.tok = "null" THEN PyNone ELSE PyStr(j.chars)

\* config.py:45
BuiltinDefaultServer == "tcp://docker.inoyb.com:2376"

\* default_server values a config file may hold
DefaultServers == {BuiltinDefaultServer, "tcp://10.0.0.1:2376"}

\* values handed to set_docker_host
Hosts == {"", "null", "tcp://my-server:2376", BuiltinDefaultServer}

\* config.py:41-50, the "docker" object (the fields the server address uses)
default_config == [default_server |-> BuiltinDefaultServer, current_server |-> PyNone]

NoFile == [state |-> "absent", default_server |-> JsonNull, current_server |-> JsonNull]
CorruptFile == [state |-> "corrupt", default_server |-> JsonNull, current_server |-> JsonNull]

\* config.py:52-55: the record written out as JSON
save_config(cfg) ==
    [state |-> "json",
     default_server |-> JsonDump(PyStr(cfg.default_server)),
     current_server |-> JsonDump(cfg.current_server)]

\* config.py:30-39: the record a new instance starts with
load_config(file) ==
    IF file.state = "json"
    THEN [default_server |-> JsonLoad(file.default_server).s,
          current_server |-> JsonLoad(file.current_server)]
    ELSE default_config

\* config.py:57-62: a falsy current_server gives the default
get_docker_host(cfg) ==
    IF cfg.current_server.t = "str" /\ cfg.current_server.s # ""
    THEN cfg.current_server.s
    ELSE cfg.default_server

\* config.py:74-76
is_using_default_server(cfg) == cfg.current_server.t = "none"

NoOp == [op |-> "none", arg |-> ""]

NothingShown == [host |-> "", using_default |-> FALSE, printed |-> FALSE]

CfgInit ==
    /\ disk \in {NoFile, CorruptFile}
               \cup {save_config([default_server |-> d, current_server |-> PyNone]) :
                        d \in DefaultServers}
    /\ config = load_config(disk)
    /\ fresh = TRUE
    /\ lastOp = NoOp
    /\ shown = NothingShown

\* DockerConfig(): a new process loads the record from the file
NewInstance ==
    /\ config' = load_config(disk)
    /\ fresh' = TRUE
    /\ UNCHANGED <<disk, lastOp, shown, notCfg>>

set_docker_host_no_save(host) ==
    /\ config' = [config EXCEPT !.current_server = PyStr(host)]
    /\ fresh' = FALSE
    /\ lastOp' = [op |-> "set_docker_host", arg |-> host]
    /\ UNCHANGED <<disk, shown, notCfg>>

\* config.py:64-67
set_docker_host(host) ==
    /\ config' = [config EXCEPT !.current_server = PyStr(host)]
    /\ disk' = save_config(config')
    /\ fresh' = FALSE
    /\ lastOp' = [op |-> "set_docker_host", arg |-> host]
    /\ UNCHANGED <<shown, notCfg>>

set_default_server_empty_string ==
    /\ config' = [config EXCEPT !.current_server = PyStr("")]
    /\ disk' = save_config(config')
    /\ fresh' = FALSE
    /\ lastOp' = [op |-> "set_default_server", arg |-> ""]
    /\ UNCHANGED <<shown, notCfg>>

\* config.py:69-72
set_default_server ==
    /\ config' = [config EXCEPT !.current_server = PyNone]
    /\ disk' = save_config(config')
    /\ fresh' = FALSE
    /\ lastOp' = [op |-> "set_default_server", arg |-> ""]
    /\ UNCHANGED <<shown, notCfg>>

\* cli.py:179-185, "config list": the address and whether it is the default
config_list ==
    /\ shown' = [host |-> get_docker_host(config),
                 using_default |-> is_using_default_server(config),
                 printed |-> TRUE]
    /\ UNCHANGED <<disk, config, fresh, lastOp, notCfg>>

SetDockerHost == \E host \in Hosts : set_docker_host(host)

CfgNext ==
    \/ NewInstance
    \/ SetDockerHost
    \/ set_default_server
    \/ config_list

\* no configuration activity: the store as a first run finds it
CfgIdle ==
    /\ disk = NoFile /\ config = default_config /\ fresh = TRUE
    /\ lastOp = NoOp /\ shown = NothingShown

(***************************************************************************)
(* Images: list_local_images, remove_image, cleanup_old_images.            *)
(***************************************************************************)
\* "inoyb/", the namespace of the tool's tags (builder.py:269, 317, 355)
Namespace == <<"i", "n", "o", "y", "b", "/">>

\* the tags an engine may hold: three builds of project a, one of b, one
\* of a-b, one tag without a suffix and one tag outside the namespace
TagPool ==
    {Namespace \o <<"a", "-", "1">>,
     Namespace \o <<"a", "-", "2">>,
     Namespace \o <<"a", "-", "3">>,
     Namespace \o <<"b", "-", "1">>,
     Namespace \o <<"a", "-", "b", "-", "1">>,
     Namespace \o <<"a">>,
     <<"r", "/", "a", "-", "1">>}

\* str.startswith
StartsWith(s, prefix) ==
    Len(s) >= Len(prefix) /\ SubSeq(s, 1, Len(prefix)) = prefix

\* `sub in s`
Contains(s, sub) ==
    \E i \in 1..(Len(s) - Len(sub) + 1) : SubSeq(s, i, i + Len(sub) - 1) = sub

RECURSIVE Remove(_, _)
\* str.replace(old, ""): every occurrence of old removed, left to right
Remove(s, old) ==
    IF s = <<>> THEN <<>>
    ELSE IF StartsWith(s, old) THEN Remove(SubSeq(s, Len(old) + 1, Len(s)), old)
    ELSE <<Head(s)>> \o Remove(Tail(s), old)

RECURSIVE Split(_, _, _)
\* str.split(sep) for a one-character sep; cur is the part being read
Split(s, sep, cur) ==
    IF s = <<>> THEN <<cur>>
    ELSE IF Head(s) = sep THEN <<cur>> \o Split(Tail(s), sep, <<>>)
    ELSE Split(Tail(s), sep, Append(cur, Head(s)))

RECURSIVE Join(_, _)
\* sep.join(parts)
Join(parts, sep) ==
    IF parts = <<>> THEN <<>>
    ELSE IF Len(parts) = 1 THEN parts[1]
    ELSE parts[1] \o <<sep>> \o Join(Tail(parts), sep)

\* all orders in which the engine may list a set of images
Orders(S) ==
    {o \in [1..Cardinality(S) -> S] : \A i, j \in 1..Cardinality(S) :
                                        i # j => o[i] # o[j]}

RECURSIVE InsertNewestFirst(_, _)
\* x put behind every element at least as new: a stable descending sort
InsertNewestFirst(sorted, x) ==
    IF sorted = <<>> THEN <<x>>
    ELSE IF Head(sorted).created >= x.created
         THEN <<Head(sorted)>> \o InsertNewestFirst(Tail(sorted), x)
         ELSE <<x>> \o sorted

RECURSIVE SortNewestFirst(_, _)
\* sorted(images, key=created, reverse=True), the first n elements done
SortNewestFirst(images, n) ==
    IF n = 0 THEN <<>>
    ELSE InsertNewestFirst(SortNewestFirst(images, n - 1), images[n])

\* project_filter=None
NoFilter == [given |-> FALSE, text |-> <<>>]

\* the values of project_filter: None, "", "a-", "b-" and "r/"
Filters ==
    {NoFilter} \cup {[given |-> TRUE, text |-> t] :
                       t \in {<<>>, <<"a", "-">>, <<"b", "-">>, <<"r", "/">>}}

list_local_images_any_namespace(images, project_filter) ==
    LET Keep(img) == ~project_filter.given \/ Contains(img.name, project_filter.text)
        inoyb_images == SelectSeq(images, Keep)
    IN  SortNewestFirst(inoyb_images, Len(inoyb_images))

\* builder.py:312-328, on the engine's answer `images`
list_local_images(images, project_filter) ==
    LET Keep(img) ==
            /\ StartsWith(img.name, Namespace)
            /\ (~project_filter.given \/ Contains(img.name, project_filter.text))
        inoyb_images == SelectSeq(images, Keep)
    IN  SortNewestFirst(inoyb_images, Len(inoyb_images))

\* builder.py:355: the parts of the tag without its namespace
name_parts(name) == Split(Remove(name, Namespace), "-", <<>>)

\* builder.py:356-357: the project a tag is grouped under
HasProject(name) == Len(name_parts(name)) > 1
project_name(name) ==
    LET parts == name_parts(name)
    IN  Join(SubSeq(parts, 1, Len(parts) - 1), "-")

RECURSIVE GroupOrder(_)
\* the keys of project_groups, in the order of their insertion
GroupOrder(images) ==
    IF images = <<>> THEN <<>>
    ELSE LET init == SubSeq(images, 1, Len(images) - 1)
             last == images[Len(images)]
             keys == GroupOrder(init)
         IN  IF HasProject(last.name)
                /\ \A i \in 1..Len(keys) : keys[i] # project_name(last.name)
             THEN Append(keys, project_name(last.name))
             ELSE keys

\* project_groups[g], in the order of the listing
project_images(images, g) ==
    LET InGroup(img) == HasProject(img.name) /\ project_name(img.name) = g
    IN  SelectSeq(images, InGroup)

to_remove_keeps_oldest(imgs, keep_count) ==
    IF Len(imgs) > keep_count THEN SubSeq(imgs, 1, Len(imgs) - keep_count) ELSE <<>>

\* builder.py:364-366: project_images[keep_count:] of a group over the limit
to_remove(imgs, keep_count) ==
    IF Len(imgs) > keep_count THEN SubSeq(imgs, keep_count + 1, Len(imgs)) ELSE <<>>

RECURSIVE RemovalPlan(_, _, _)
\* the images remove_image is called with, group after group
RemovalPlan(images, groups, keep_count) ==
    IF groups = <<>> THEN <<>>
    ELSE to_remove(project_images(images, Head(groups)), keep_count)
         \o RemovalPlan(images, Tail(groups), keep_count)

\* builder.py:346-366: what cleanup_old_images sets out to remove
cleanup_plan(images, keep_count) ==
    IF Len(images) <= keep_count THEN <<>>
    ELSE RemovalPlan(images, GroupOrder(images), keep_count)

Names(images) == [i \in 1..Len(images) |-> images[i].name]

RECURSIVE remove_each_stops_at_failure(_, _)
remove_each_stops_at_failure(names, refused) ==
    IF names = <<>> THEN [attempted |-> <<>>, removed_count |-> 0]
    ELSE IF Head(names) \in refused
         THEN [attempted |-> <<Head(names)>>, removed_count |-> 0]
         ELSE LET rest == remove_each_stops_at_failure(Tail(names), refused)
              IN  [attempted |-> <<Head(names)>> \o rest.attempted,
                   removed_count |-> 1 + rest.removed_count]

RECURSIVE remove_each_counts_until_failure(_, _)
remove_each_counts_until_failure(names, refused) ==
    IF names = <<>> THEN [attempted |-> <<>>, removed_count |-> 0]
    ELSE LET rest == remove_each_counts_until_failure(Tail(names), refused)
         IN  [attempted |-> <<Head(names)>> \o rest.attempted,
              removed_count |-> IF Head(names) \in refused THEN 0
                                ELSE 1 + rest.removed_count]

RECURSIVE remove_each(_, _)
\* builder.py:362-369: remove_image is called for every image to remove,
\* in order, and removed_count goes up by one whenever it returns True;
\* `refused` are the tags whose removal raises in the engine
\* (builder.py:336-342)
remove_each(names, refused) ==
    IF names = <<>> THEN [attempted |-> <<>>, removed_count |-> 0]
    ELSE LET rest == remove_each(Tail(names), refused)
         IN  [attempted |-> <<Head(names)>> \o rest.attempted,
              removed_count |-> (IF Head(names) \in refused THEN 0 ELSE 1)
                                + rest.removed_count]

Images == [name : TagPool, created : 1..MaxTime]

ImgInit ==
    /\ engine \in {e \in SUBSET Images :
                     /\ Cardinality(e) <= MaxImages
                     /\ \A x, y \in e : x.name = y.name => x = y}
    /\ phase = "start"
    /\ keep = 0
    /\ listed = <<>>
    /\ list_error = FALSE
    /\ list_filter = NoFilter
    /\ attempted = <<>>
    /\ failed = {}
    /\ removed_count = 0

\* what list_local_images() may return: the engine lists its images in some
\* order, or the listing raises and the result is empty (builder.py:330-332)
ListingsFor(project_filter) ==
    {[images |-> list_local_images(order, project_filter), error |-> FALSE] :
        order \in Orders(engine)}
    \cup {[images |-> <<>>, error |-> TRUE]}

\* list_local_images() without a filter
Listings == ListingsFor(NoFilter)

\* cleanup_old_images(keep_count) on the image state; each removal
\* succeeds or is refused (remove_image, builder.py:334-342)
Cleanup(keep_count) ==
    \E listing \in Listings :
      \E plan \in {Names(cleanup_plan(listing.images, keep_count))} :
        \E refused \in SUBSET Range(plan) :
          \E run \in {remove_each(plan, refused)} :
            /\ keep' = keep_count
            /\ listed' = listing.images
            /\ list_error' = listing.error
            /\ list_filter' = NoFilter
            /\ attempted' = run.attempted
            /\ failed' = Range(run.attempted) \cap refused
            /\ removed_count' = run.removed_count
            /\ engine' = {img \in engine :
                            img.name \notin Range(run.attempted) \ refused}

cleanup_old_images ==
    /\ phase = "start"
    /\ \E keep_count \in 0..MaxKeep : Cleanup(keep_count)
    /\ phase' = "cleaned"
    /\ UNCHANGED notImg

\* list_local_images(project_filter) on the image state
ListLocalImages ==
    /\ phase = "start"
    /\ \E project_filter \in Filters :
         \E listing \in ListingsFor(project_filter) :
           /\ list_filter' = project_filter
           /\ listed' = listing.images
           /\ list_error' = listing.error
    /\ phase' = "listed"
    /\ UNCHANGED <<engine, keep, attempted, failed, removed_count>>
    /\ UNCHANGED notImg

ImgNext == cleanup_old_images \/ ListLocalImages

\* no image activity
ImgIdle ==
    /\ engine = {} /\ phase = "start" /\ keep = 0 /\ listed = <<>>
    /\ list_error = FALSE /\ list_filter = NoFilter
    /\ attempted = <<>> /\ failed = {}
    /\ removed_count = 0

(***************************************************************************)
(* Image naming: generate_image_name.                                      *)
(***************************************************************************)
\* characters of the model names drawn: upper and lower case, the two
\* characters that are replaced, and the separator itself
ModelNameChars == {"M", "m", " ", "_", "-"}

\* the model name of the specification's example, "My Model_X"
MyModelX == <<"M", "y", " ", "M", "o", "d", "e", "l", "_", "X">>

ModelNames == SeqsUpTo(ModelNameChars, MaxNameLen) \cup {MyModelX}

\* str.lower() on one character
LowerChar(c) ==
    CASE c = "M" -> "m"
      [] c = "X" -> "x"
      [] OTHER -> c

\* str.lower()
Lower(s) == [i \in 1..Len(s) |-> LowerChar(s[i])]

\* str.replace(old, new) for one-character old and new
Replace(s, old, new) == [i \in 1..Len(s) |-> IF s[i] = old THEN new ELSE s[i]]

\* the digits of uuid4().hex
HexDigits ==
    {"0", "1", "2", "3", "4", "5", "6", "7", "8", "9", "a", "b", "c", "d", "e", "f"}

\* uuid4().hex has 32 digits
UuidHexLen == 32

\* builder.py:42, hex[:8]
SuffixLen == 8

\* the uuid4().hex values drawn: two digits alternating
UuidHexes ==
    {[i \in 1..UuidHexLen |-> IF i % 2 = 1 THEN d1 ELSE d2] :
        d1 \in {"0", "a", "f"}, d2 \in {"7", "c"}}

generate_image_name_keeps_underscore(name, uuid_hex) ==
    Replace(Lower(name), " ", "-") \o <<"-">> \o SubSeq(uuid_hex, 1, SuffixLen)

\* builder.py:39-43
generate_image_name(name, uuid_hex) ==
    LET clean_name == Replace(Replace(Lower(name), " ", "-"), "_", "-")
        image_uuid == SubSeq(uuid_hex, 1, SuffixLen)
    IN  clean_name \o <<"-">> \o image_uuid

NameInit ==
    /\ model_name \in ModelNames
    /\ image_names = <<>>

\* one build of the model, then a second build of the same model
GenerateImageName ==
    /\ Len(image_names) < 2
    /\ \E uuid_hex \in UuidHexes :
         image_names' = Append(image_names, generate_image_name(model_name, uuid_hex))
    /\ UNCHANGED <<model_name, notName>>

NameNext == GenerateImageName

\* no naming activity
NameIdle == model_name = <<>> /\ image_names = <<>>

(***************************************************************************)
(* The validator: a project directory is drawn, then validate_project runs *)
(* on it.                                                                  *)
(***************************************************************************)
ValInit ==
    /\ \E f \in FileStates, m \in DirStates, e \in DirStates :
         \E mf \in ManifestsOf(f) :
            project = [files |-> f, model |-> m, examples |-> e, manifest |-> mf]
    /\ vresult = NoResult

ValidateProject ==
    /\ vresult = NoResult
    /\ vresult' = validate_project(project)
    /\ UNCHANGED <<project, notVal>>

ValNext == ValidateProject

\* no validation activity
ValIdle == project = NoProject /\ vresult = NoResult

(***************************************************************************)
(* The Dockerfile text: get_python_version, get_template_path and          *)
(* generate_dockerfile.                                                    *)
(***************************************************************************)
\* the largest minor version of an interpreter
MaxMinor == 14

\* the interpreters the tool may run under
Versions == [major : {2, 3}, minor : 0..MaxMinor]

\* builder.py:50-56
version_map ==
    (<<3, 8>> :> "python:3.8-slim") @@ (<<3, 9>> :> "python:3.9-slim")
    @@ (<<3, 10>> :> "python:3.10-slim") @@ (<<3, 11>> :> "python:3.11-slim")
    @@ (<<3, 12>> :> "python:3.12-slim")

\* builder.py:47, 58: version_map.get((major, minor), "python:3.11-slim")
get_python_version(major, minor) ==
    IF <<major, minor>> \in DOMAIN version_map
    THEN version_map[<<major, minor>>]
    ELSE "python:3.11-slim"

\* a template file: not there, there and good, there and unreadable, or
\* there with a placeholder that format() is not given
TemplateStates == {"absent", "good", "unreadable", "unknown_variable"}

\* builder.py:100-124: the project-level template wins over the bundled
\* one; use_gpu only picks the file name both are looked up under
get_template_path(tpl) ==
    IF tpl.project # "absent" THEN [found |-> TRUE, which |-> "project"]
    ELSE IF tpl.builtin # "absent" THEN [found |-> TRUE, which |-> "builtin"]
    ELSE [found |-> FALSE, which |-> ""]

NotGenerated ==
    [state |-> "none", template |-> "", base_image |-> "", examples_copy |-> "",
     exc |-> ""]

\* builder.py:126-149; exc is "template_missing" for "未找到Dockerfile模板",
\* "template_read" for "读取Dockerfile模板失败" and "template_variable" for
\* "Dockerfile模板变量错误"
generate_dockerfile(image, has_examples, tpl) ==
    LET path == get_template_path(tpl)
        file == IF path.which = "project" THEN tpl.project ELSE tpl.builtin
        Failed(exc) == [NotGenerated EXCEPT !.state = "raised", !.exc = exc]
    IN  IF ~path.found THEN Failed("template_missing")
        ELSE IF file = "unreadable" THEN Failed("template_read")
        ELSE IF file = "unknown_variable" THEN Failed("template_variable")
        ELSE [state |-> "returned", template |-> path.which, base_image |-> image,
              examples_copy |-> IF has_examples THEN "COPY examples/ ./examples/"
                                ELSE "",
              exc |-> ""]

PyInit ==
    /\ version_info \in Versions
    /\ gen_args \in [has_examples : BOOLEAN]
    /\ templates \in [project : {"absent", "good"}, builtin : TemplateStates]
    /\ base_image = ""
    /\ generated = NotGenerated

\* generate_dockerfile(project_path, has_examples, use_gpu): the base image
\* is resolved first (builder.py:130), then the template is read and filled
GenerateDockerfile ==
    /\ generated = NotGenerated
    /\ base_image' = get_python_version(version_info.major, version_info.minor)
    /\ generated' = generate_dockerfile(base_image', gen_args.has_examples, templates)
    /\ UNCHANGED <<version_info, gen_args, templates, notPy>>

PyNext == GenerateDockerfile

\* no Dockerfile is being generated
PyIdle ==
    /\ version_info = [major |-> 3, minor |-> 11]
    /\ gen_args = [has_examples |-> FALSE]
    /\ templates = [project |-> "absent", builtin |-> "good"]
    /\ base_image = ""
    /\ generated = NotGenerated

(***************************************************************************)
(* The command layer (cli.py) and build_image (builder.py:244-307).        *)
(* One run of one command: build and deploy proceed step by step, the      *)
(* other commands are one step each.                                       *)
(***************************************************************************)
\* cli.py:130, `args.keep or 3`
DefaultKeep == 3

NoCmd ==
    [name |-> "none", action |-> "", key |-> "", value |-> "",
     keep_given |-> FALSE, keep |-> 0, target |-> <<>>]

\* the command lines of cli.py:281-346 (--path and --gpu do not change the
\* control flow and are left out)
Commands ==
    {[NoCmd EXCEPT !.name = n] : n \in {"check", "build", "push", "deploy"}}
    \cup {[NoCmd EXCEPT !.name = "images", !.action = a] : a \in {"", "list"}}
    \cup {[NoCmd EXCEPT !.name = "images", !.action = "clean"]}
    \cup {[NoCmd EXCEPT !.name = "images", !.action = "clean",
                        !.keep_given = TRUE, !.keep = k] : k \in 0..MaxKeep}
    \cup {[NoCmd EXCEPT !.name = "images", !.action = "rm", !.target = t] :
            t \in {Namespace \o <<"a", "-", "1">>, Namespace \o <<"b", "-", "1">>}}
    \cup {[NoCmd EXCEPT !.name = "config", !.action = "list"]}
    \cup {[NoCmd EXCEPT !.name = "config", !.action = "set", !.key = "default"]}
    \cup {[NoCmd EXCEPT !.name = "config", !.action = "set", !.key = "registry"]}
    \cup {[NoCmd EXCEPT !.name = "config", !.action = "set",
                        !.key = "docker.host", !.value = v] : v \in Hosts}

GoodFiles == [f \in Range(required_files) |-> "file"]
EmptyDir == [kind |-> "dir", contents |-> NoContents]
AbsentDir == [kind |-> "absent", contents |-> NoContents]
GoodManifest ==
    [parse |-> "ok", root |-> "object", has_model_info |-> TRUE,
     model_info |-> "object", has_name |-> TRUE, name_type |-> "str",
     name |-> <<"a", " ", "a">>]

\* the projects a command is run on: a valid one, one without
\* requirements.txt, one with model/model/, one with an empty model name
SampleProjects ==
    {[files |-> GoodFiles, model |-> EmptyDir, examples |-> AbsentDir,
      manifest |-> GoodManifest],
     [files |-> [GoodFiles EXCEPT !["requirements.txt"] = "absent"],
      model |-> EmptyDir, examples |-> EmptyDir, manifest |-> GoodManifest],
     [files |-> GoodFiles,
      model |-> [kind |-> "dir", contents |-> [NoContents EXCEPT !["model"] = "dir"]],
      examples |-> AbsentDir, manifest |-> GoodManifest],
     [files |-> GoodFiles, model |-> EmptyDir, examples |-> EmptyDir,
      manifest |-> [GoodManifest EXCEPT !.name = <<>>]]}

\* the engines a command is run against: no image, or three builds of a
SampleEngines ==
    {{},
     {[name |-> Namespace \o <<"a", "-", "1">>, created |-> 1],
      [name |-> Namespace \o <<"a", "-", "2">>, created |-> 1],
      [name |-> Namespace \o <<"a", "-", "3">>, created |-> MaxTime]}}

CliInit ==
    /\ cmd \in Commands
    /\ pc = "start"
    /\ project \in SampleProjects
    /\ vresult = NoResult
    /\ engine \in SampleEngines
    /\ phase = "start" /\ keep = 0 /\ listed = <<>> /\ list_error = FALSE
    /\ list_filter = NoFilter
    /\ attempted = <<>> /\ failed = {} /\ removed_count = 0
    /\ disk \in {NoFile, save_config([default_config EXCEPT
                                        !.current_server = PyStr("tcp://my-server:2376")])}
    /\ config = load_config(disk)
    /\ fresh = TRUE /\ lastOp = NoOp /\ shown = NothingShown
    /\ model_name = <<>> /\ image_names = <<>>
    /\ PyIdle
    /\ dockerfile \in {"absent", "stale"}
    /\ wrote = FALSE
    /\ build_calls = 0
    /\ push_calls = 0
    /\ image_tag = <<>>
    /\ pending_exc = ""
    /\ reported = FALSE
    /\ exit_code = -1

\* the command returns (status 0) or calls sys.exit(1)
Exit(code, failure) ==
    /\ pc' = "exited"
    /\ exit_code' = code
    /\ reported' = failure

\* cli.py:195-226
cmd_check ==
    /\ pc = "start" /\ cmd.name = "check"
    /\ \E connected \in BOOLEAN :
         IF ~connected
         THEN /\ Exit(1, TRUE)
              /\ UNCHANGED vresult
         ELSE /\ vresult' = validate_project(project)
              /\ IF vresult'.ok THEN Exit(0, FALSE) ELSE Exit(1, TRUE)
    /\ UNCHANGED <<project, cfgVars, imgVars, nameVars, pyVars, cmd, dockerfile, wrote,
                   build_calls, push_calls, image_tag, pending_exc>>

\* cli.py:60-96: DockerManager() raises, or push_image returns True, returns
\* False or raises
cmd_push ==
    /\ pc = "start" /\ cmd.name = "push"
    /\ \E outcome \in {"no_connection", "pushed", "refused", "raised"} :
         /\ push_calls' = IF outcome = "no_connection" THEN push_calls ELSE push_calls + 1
         /\ IF outcome = "pushed" THEN Exit(0, FALSE) ELSE Exit(1, TRUE)
    /\ UNCHANGED <<valVars, cfgVars, imgVars, nameVars, pyVars, cmd, dockerfile, wrote,
                   build_calls, image_tag, pending_exc>>

\* cli.py:99-104, 152-154: DockerBuilder() or DockerManager() raises
cmd_images_no_connection ==
    /\ pc = "start" /\ cmd.name = "images"
    /\ Exit(1, TRUE)
    /\ UNCHANGED <<valVars, cfgVars, imgVars, nameVars, pyVars, cmd, dockerfile, wrote,
                   build_calls, push_calls, image_tag, pending_exc>>

\* cli.py:99-105: `inoyb images` without an action does nothing
cmd_images_no_action ==
    /\ pc = "start" /\ cmd.name = "images" /\ cmd.action = ""
    /\ Exit(0, FALSE)
    /\ UNCHANGED <<valVars, cfgVars, imgVars, nameVars, pyVars, cmd, dockerfile, wrote,
                   build_calls, push_calls, image_tag, pending_exc>>

\* cli.py:105-127: a failed local listing is logged by list_local_images
\* (builder.py:330-332) and shows as an empty list; the remote listing
\* prints a note when it fails
cmd_images_list ==
    /\ pc = "start" /\ cmd.name = "images" /\ cmd.action = "list"
    /\ \E listing \in Listings :
         /\ listed' = listing.images
         /\ list_error' = listing.error
         /\ Exit(0, listing.error)
    /\ UNCHANGED <<valVars, cfgVars, nameVars, pyVars, engine, phase, keep, list_filter, attempted,
                   failed, removed_count, cmd, dockerfile, wrote, build_calls,
                   push_calls, image_tag, pending_exc>>

\* cli.py:129-136: refused removals are logged by remove_image
cmd_images_clean ==
    /\ pc = "start" /\ cmd.name = "images" /\ cmd.action = "clean"
    /\ Cleanup(IF cmd.keep_given /\ cmd.keep # 0 THEN cmd.keep ELSE DefaultKeep)
    /\ Exit(0, list_error' \/ failed' # {})
    /\ UNCHANGED <<valVars, cfgVars, nameVars, pyVars, phase, cmd, dockerfile, wrote,
                   build_calls, push_calls, image_tag, pending_exc>>

\* cli.py:138-150: an image the engine does not hold cannot be removed
cmd_images_rm ==
    /\ pc = "start" /\ cmd.name = "images" /\ cmd.action = "rm"
    /\ \E removed \in {r \in BOOLEAN : r => \E img \in engine : img.name = cmd.target} :
         /\ attempted' = <<cmd.target>>
         /\ failed' = IF removed THEN {} ELSE {cmd.target}
         /\ engine' = IF removed THEN {img \in engine : img.name # cmd.target}
                      ELSE engine
         /\ IF removed THEN Exit(0, FALSE) ELSE Exit(1, TRUE)
    /\ UNCHANGED <<valVars, cfgVars, nameVars, pyVars, phase, keep, listed, list_error,
                   list_filter, removed_count, cmd, dockerfile, wrote, build_calls,
                   push_calls, image_tag, pending_exc>>

\* cli.py:157-192; sys.exit(1) is not caught by `except Exception`
cmd_config ==
    /\ pc = "start" /\ cmd.name = "config"
    /\ LET loaded == load_config(disk)
       IN  IF cmd.action = "list"
           THEN /\ config' = loaded
                /\ shown' = [host |-> get_docker_host(loaded),
                             using_default |-> is_using_default_server(loaded),
                             printed |-> TRUE]
                /\ Exit(0, FALSE)
                /\ UNCHANGED <<disk, lastOp>>
           ELSE IF cmd.key = "default"
           THEN /\ config' = [loaded EXCEPT !.current_server = PyNone]
                /\ disk' = save_config(config')
                /\ lastOp' = [op |-> "set_default_server", arg |-> ""]
                /\ Exit(0, FALSE)
                /\ UNCHANGED shown
           ELSE IF cmd.key = "docker.host" /\ cmd.value # ""
           THEN /\ config' = [loaded EXCEPT !.current_server = PyStr(cmd.value)]
                /\ disk' = save_config(config')
                /\ lastOp' = [op |-> "set_docker_host", arg |-> cmd.value]
                /\ Exit(0, FALSE)
                /\ UNCHANGED shown
           ELSE /\ config' = loaded
                /\ Exit(1, TRUE)
                /\ UNCHANGED <<disk, lastOp, shown>>
    /\ fresh' = FALSE
    /\ UNCHANGED <<valVars, imgVars, nameVars, pyVars, cmd, dockerfile, wrote,
                   build_calls, push_calls, image_tag, pending_exc>>

\* what a build step leaves alone besides pc, pending_exc and what it names itself
BuildFrame == <<cfgVars, nameVars, pyVars, cmd, push_calls, reported, exit_code>>

\* cli.py:27, 238: DockerBuilder() connects to the engine or raises
BuildConnect ==
    /\ pc = "start" /\ cmd.name \in {"build", "deploy"}
    /\ \E connected \in BOOLEAN :
         /\ pc' = IF connected THEN "validate" ELSE "handler"
         /\ pending_exc' = IF connected THEN "" ELSE "no_connection"
    /\ UNCHANGED <<BuildFrame, valVars, imgVars, dockerfile, wrote, build_calls, image_tag>>

BuildValidate_ignores_failure ==
    /\ pc = "validate"
    /\ vresult' = validate_project(project)
    /\ pc' = "render"
    /\ pending_exc' = ""
    /\ UNCHANGED <<BuildFrame, project, imgVars, dockerfile, wrote, build_calls, image_tag>>

\* builder.py:259-265: a failed validation is logged and raised again
BuildValidate ==
    /\ pc = "validate"
    /\ vresult' = validate_project(project)
    /\ pc' = IF vresult'.ok THEN "render" ELSE "handler"
    /\ pending_exc' = IF vresult'.ok THEN "" ELSE vresult'.exc
    /\ UNCHANGED <<BuildFrame, project, imgVars, dockerfile, wrote, build_calls, image_tag>>

\* builder.py:267-275: the name, then the Dockerfile text from the template
\* (a missing or malformed template raises)
BuildRender ==
    /\ pc = "render"
    /\ \E uuid_hex \in UuidHexes, rendered \in BOOLEAN :
         /\ image_tag' = Namespace \o generate_image_name(project.manifest.name, uuid_hex)
         /\ pc' = IF rendered THEN "write" ELSE "handler"
         /\ pending_exc' = IF rendered THEN "" ELSE "template"
    /\ UNCHANGED <<BuildFrame, valVars, imgVars, dockerfile, wrote, build_calls>>

\* builder.py:277-280: open() fails and leaves the path as it was, or the
\* file is opened and written in full or in part
BuildWrite ==
    /\ pc = "write"
    /\ \E outcome \in {"not_opened", "partial", "written"} :
         /\ dockerfile' = IF outcome = "not_opened" THEN dockerfile ELSE outcome
         /\ wrote' = (outcome # "not_opened")
         /\ pc' = IF outcome = "written" THEN "engine" ELSE "finally"
         /\ pending_exc' = IF outcome = "written" THEN "" ELSE "os_error"
    /\ UNCHANGED <<BuildFrame, valVars, imgVars, build_calls, image_tag>>

\* builder.py:285-291: the engine builds and tags the image, or raises
BuildEngine ==
    /\ pc = "engine"
    /\ build_calls' = build_calls + 1
    /\ \E built \in BOOLEAN :
         /\ engine' = IF built THEN engine \cup {[name |-> image_tag, created |-> MaxTime]}
                      ELSE engine
         /\ pc' = IF built THEN "logs" ELSE "finally"
         /\ pending_exc' = IF built THEN "" ELSE "build_error"
    /\ UNCHANGED <<BuildFrame, valVars, phase, keep, listed, list_error, list_filter, attempted,
                   failed, removed_count, dockerfile, wrote, image_tag>>

\* builder.py:293-301: the build log is read, which may raise
BuildLogs ==
    /\ pc = "logs"
    /\ \E read \in BOOLEAN :
         pending_exc' = IF read THEN "" ELSE "log_error"
    /\ pc' = "finally"
    /\ UNCHANGED <<BuildFrame, valVars, imgVars, dockerfile, wrote, build_calls, image_tag>>

BuildFinally_on_success_only ==
    /\ pc = "finally"
    /\ dockerfile' = IF pending_exc = "" THEN "absent" ELSE dockerfile
    /\ pc' = IF pending_exc = "" THEN "built" ELSE "handler"
    /\ UNCHANGED <<BuildFrame, valVars, imgVars, wrote, build_calls, image_tag, pending_exc>>

\* builder.py:303-307: the file is removed if it exists, then build_image
\* returns or the exception goes on
BuildFinally ==
    /\ pc = "finally"
    /\ dockerfile' = "absent"
    /\ pc' = IF pending_exc = "" THEN "built" ELSE "handler"
    /\ UNCHANGED <<BuildFrame, valVars, imgVars, wrote, build_calls, image_tag, pending_exc>>

\* cli.py:31-42: build prints the result and returns
BuildReturn ==
    /\ pc = "built" /\ cmd.name = "build"
    /\ Exit(0, FALSE)
    /\ UNCHANGED <<valVars, cfgVars, imgVars, nameVars, pyVars, cmd, dockerfile, wrote,
                   build_calls, push_calls, image_tag, pending_exc>>

\* cli.py:245-252: deploy pushes the image_tag build_image returned
DeployPush ==
    /\ pc = "built" /\ cmd.name = "deploy"
    /\ \E outcome \in {"no_connection", "pushed", "refused", "raised"} :
         /\ push_calls' = IF outcome = "no_connection" THEN push_calls ELSE push_calls + 1
         /\ IF outcome = "pushed" THEN Exit(0, FALSE) ELSE Exit(1, TRUE)
    /\ UNCHANGED <<valVars, cfgVars, imgVars, nameVars, pyVars, cmd, dockerfile, wrote,
                   build_calls, image_tag, pending_exc>>

\* cli.py:44-57, 254-256: the handler prints the failure and exits with 1
Handler ==
    /\ pc = "handler"
    /\ Exit(1, TRUE)
    /\ UNCHANGED <<valVars, cfgVars, imgVars, nameVars, pyVars, cmd, dockerfile, wrote,
                   build_calls, push_calls, image_tag, pending_exc>>

Next ==
    \/ cmd_check
    \/ cmd_push
    \/ cmd_images_no_connection
    \/ cmd_images_no_action
    \/ cmd_images_list
    \/ cmd_images_clean
    \/ cmd_images_rm
    \/ cmd_config
    \/ BuildConnect
    \/ BuildValidate
    \/ BuildRender
    \/ BuildWrite
    \/ BuildEngine
    \/ BuildLogs
    \/ BuildFinally
    \/ BuildReturn
    \/ DeployPush
    \/ Handler

\* no command running
CliIdle ==
    /\ cmd = NoCmd /\ pc = "start" /\ dockerfile = "absent" /\ wrote = FALSE
    /\ build_calls = 0 /\ push_calls = 0 /\ image_tag = <<>> /\ pending_exc = ""
    /\ reported = FALSE /\ exit_code = -1

(***************************************************************************)
(* Specifications, one per component.                                      *)
(***************************************************************************)
InitValidate == ValInit /\ CfgIdle /\ ImgIdle /\ NameIdle /\ PyIdle /\ CliIdle

SpecValidate == InitValidate /\ [][ValNext]_vars

InitConfig == CfgInit /\ ValIdle /\ ImgIdle /\ NameIdle /\ PyIdle /\ CliIdle

SpecConfig == InitConfig /\ [][CfgNext]_vars

InitImages == ImgInit /\ ValIdle /\ CfgIdle /\ NameIdle /\ PyIdle /\ CliIdle

SpecImages == InitImages /\ [][ImgNext]_vars

InitNamer == NameInit /\ ValIdle /\ CfgIdle /\ ImgIdle /\ PyIdle /\ CliIdle

SpecNamer == InitNamer /\ [][NameNext]_vars

InitDockerfile == PyInit /\ ValIdle /\ CfgIdle /\ ImgIdle /\ NameIdle /\ CliIdle

SpecDockerfile == InitDockerfile /\ [][PyNext]_vars

Init == CliInit

Spec == Init /\ [][Next]_vars

(***************************************************************************)
(* Properties of the validator.                                            *)
(***************************************************************************)
Validated == vresult # NoResult

\* steps 1 and 2 of validate_project pass: the nesting checks are reached
ReachesNestingCheck(p) ==
    /\ \A f \in Range(required_files) : p.files[f] = "file"
    /\ p.model.kind = "dir"

\* both nesting checks pass as well: the manifest is read
ReachesManifest(p) ==
    /\ ReachesNestingCheck(p)
    /\ check_nested_directories(p.model, "model")
    /\ check_nested_directories(p.examples, "examples")

\* the required entries that are absent from the project directory
AbsentEntries(p) ==
    {f \in Range(required_files) : p.files[f] = "absent"}
    \cup (IF p.model.kind = "absent" THEN {"model"} ELSE {})

\* the required entries the reported failure names
NamedEntries(r) ==
    {f \in Range(required_files) : f \in Range(r.missing_files)}
    \cup (IF r.reason = "missing_model_dir" THEN {"model"} ELSE {})

\* C1: whenever one or more of gogogo.py, mc.json, requirements.txt and
\* model/ is absent, validation fails and the reported failure names every
\* absent entry.
C1_AllMissingEntriesNamed ==
    (Validated /\ AbsentEntries(project) # {}) =>
        /\ ~vresult.ok
        /\ AbsentEntries(project) \subseteq NamedEntries(vresult)

\* the directory's only entry is a child directory named like the directory
OnlySelfNamedChild(d, dir_name) ==
    /\ d.kind = "dir"
    /\ IterDir(d.contents) = {dir_name}
    /\ d.contents[dir_name] = "dir"

\* no entry, two or more entries, or one entry with another name
PassingShape(d, dir_name) ==
    /\ d.kind = "dir"
    /\ \/ Cardinality(IterDir(d.contents)) = 0
       \/ Cardinality(IterDir(d.contents)) >= 2
       \/ \E n \in EntryNames : n # dir_name /\ IterDir(d.contents) = {n}

\* C2: a model/ or examples/ directory whose only entry is a child
\* directory of its own name makes validation fail, and with the nesting
\* error once the required files and model/ are in place; a directory with
\* no entry, with two or more entries or with one entry of another name is
\* never reported as nested.
C2_NestingCheck ==
    Validated =>
        /\ (OnlySelfNamedChild(project.model, "model")
              \/ OnlySelfNamedChild(project.examples, "examples"))
             => ~vresult.ok
        /\ (ReachesNestingCheck(project)
              /\ OnlySelfNamedChild(project.model, "model"))
             => vresult.reason = "model_nested"
        /\ (ReachesNestingCheck(project)
              /\ ~OnlySelfNamedChild(project.model, "model")
              /\ OnlySelfNamedChild(project.examples, "examples"))
             => vresult.reason = "examples_nested"
        /\ PassingShape(project.model, "model")
             => vresult.reason # "model_nested"
        /\ PassingShape(project.examples, "examples")
             => vresult.reason # "examples_nested"

C2_Witness ==
    /\ vresult.reason = "examples_nested"
    /\ PassingShape(project.model, "model")
    /\ OnlySelfNamedChild(project.examples, "examples")

\* the five defects of a manifest that parses, "none" for any other manifest
DefectOf(mf) ==
    IF mf.parse # "ok" THEN "none"
    ELSE IF mf.root # "object" THEN "root_not_object"
    ELSE IF ~mf.has_model_info THEN "none"
    ELSE IF mf.model_info # "object" THEN "model_info_not_object"
    ELSE IF ~mf.has_name THEN "name_absent"
    ELSE IF mf.name_type # "str" THEN "name_not_string"
    ELSE IF mf.name = <<>> THEN "name_empty"
    ELSE "none"

NonEmptyStringName(mf) ==
    /\ mf.parse = "ok" /\ mf.root = "object" /\ mf.has_model_info
    /\ mf.model_info = "object" /\ mf.has_name
    /\ mf.name_type = "str" /\ mf.name # <<>>

\* the reason validation reports for the project with mc.json replaced by mf
ReasonWith(mf) == validate_project([project EXCEPT !.manifest = mf]).reason

\* C3 as stated: a non-empty string name passes, each of the five defects
\* fails, and each defect has a reason none of the other four has.
C3_FiveDistinctReasons ==
    (Validated /\ ReachesManifest(project)) =>
        /\ NonEmptyStringName(project.manifest) => vresult.ok
        /\ DefectOf(project.manifest) # "none" =>
             /\ ~vresult.ok
             /\ \A mf \in Manifests :
                   (DefectOf(mf) # "none"
                      /\ DefectOf(mf) # DefectOf(project.manifest))
                   => ReasonWith(mf) # vresult.reason

\* the name has a character that is not whitespace
HasVisibleChar(s) == \E i \in 1..Len(s) : s[i] # " "

SameReasonAllowed(d1, d2) ==
    {d1, d2} = {"name_empty", "name_not_string"}

\* C3 amended: a string name with a non-whitespace character passes; a
\* whitespace-only name fails; each of the five defects fails; two defects
\* have different reasons, except that an empty name and a non-string
\* name share one reason, which a whitespace-only name gets too.
C3_ManifestReasons ==
    (Validated /\ ReachesManifest(project)) =>
        /\ (NonEmptyStringName(project.manifest)
              /\ HasVisibleChar(project.manifest.name)) => vresult.ok
        /\ (NonEmptyStringName(project.manifest)
              /\ ~HasVisibleChar(project.manifest.name))
             => vresult.reason = "name_not_nonempty_string"
        /\ DefectOf(project.manifest) # "none" =>
             /\ ~vresult.ok
             /\ \A mf \in Manifests :
                   (DefectOf(mf) # "none"
                      /\ DefectOf(mf) # DefectOf(project.manifest))
                   => (ReasonWith(mf) = vresult.reason
                         <=> SameReasonAllowed(DefectOf(mf),
                                               DefectOf(project.manifest)))

C3_Witness ==
    /\ Validated /\ ReachesManifest(project)
    /\ DefectOf(project.manifest) = "name_not_string"
    /\ vresult.reason = ReasonWith([project.manifest EXCEPT !.name_type = "str"])

(***************************************************************************)
(* Properties of the configuration store.                                  *)
(***************************************************************************)
\* the record on disk is the record in memory
PersistedIsInMemory == disk.state = "json" /\ load_config(disk) = config

\* C5 as stated: after set_docker_host(v), for any v, this instance and an
\* instance loaded from the file return v from get_docker_host(); after
\* any set operation the persisted record equals the in-memory record.
C5_RoundTripAnyValue ==
    /\ lastOp.op = "set_docker_host" =>
         /\ get_docker_host(config) = lastOp.arg
         /\ get_docker_host(load_config(disk)) = lastOp.arg
    /\ lastOp.op # "none" => PersistedIsInMemory

\* C5 amended: the same for every non-empty v.
C5_RoundTripNonEmpty ==
    /\ (lastOp.op = "set_docker_host" /\ lastOp.arg # "") =>
         /\ get_docker_host(config) = lastOp.arg
         /\ get_docker_host(load_config(disk)) = lastOp.arg
    /\ lastOp.op # "none" => PersistedIsInMemory

C5_Witness ==
    /\ lastOp = [op |-> "set_docker_host", arg |-> "null"]
    /\ fresh
    /\ shown.printed /\ shown.host = "null" /\ ~shown.using_default

ClearedIn(cfg) ==
    /\ get_docker_host(cfg) = cfg.default_server
    /\ is_using_default_server(cfg)

\* C6: after set_default_server(), whatever was set before, this instance
\* and an instance loaded from the file return the record's default_server
\* from get_docker_host() and report is_using_default_server(); no
\* operation changes default_server.
C6_ClearOverride ==
    /\ [](lastOp.op = "set_default_server" =>
            /\ ClearedIn(config)
            /\ ClearedIn(load_config(disk))
            /\ load_config(disk).default_server = config.default_server)
    /\ [][config'.default_server = config.default_server]_vars

C6_Witness ==
    /\ lastOp.op = "set_default_server"
    /\ fresh
    /\ config.default_server # BuiltinDefaultServer
    /\ shown.printed /\ shown.host = config.default_server /\ shown.using_default

(***************************************************************************)
(* Properties of the retention prune.                                      *)
(***************************************************************************)
\* a tag of the namespace, without "inoyb/"
Body(tag) == SubSeq(tag, Len(Namespace) + 1, Len(tag))

DashPositions(b) == {i \in 1..Len(b) : b[i] = "-"}

LastDash(b) == CHOOSE i \in DashPositions(b) : \A j \in DashPositions(b) : j <= i

\* the tag is in the namespace and ends in a suffix segment
HasSuffix(tag) == StartsWith(tag, Namespace) /\ DashPositions(Body(tag)) # {}

\* the inferred project group: the tag with its trailing suffix segment stripped
GroupOf(tag) == SubSeq(Body(tag), 1, LastDash(Body(tag)) - 1)

Grouped(imgs) == {x \in imgs : HasSuffix(x.name)}

Members(imgs, g) == {x \in Grouped(imgs) : GroupOf(x.name) = g}

\* a cleanup_old_images call whose listing succeeded
PruneStep == phase = "start" /\ phase' = "cleaned" /\ ~list_error'

\* C4: cleanup_old_images(K) attempts, for every project group of N images,
\* exactly N-K removals when K < N and none when K >= N; the images it
\* attempts are the oldest of the group; nothing outside a group is
\* attempted, whatever other groups and images exist.
C4_PrunesOldestExcess ==
    [][PruneStep =>
        /\ Len(attempted') = Cardinality(Range(attempted'))
        /\ Range(attempted') \subseteq {x.name : x \in Grouped(engine)}
        /\ \A m \in Grouped(engine) :
             LET members == Members(engine, GroupOf(m.name))
                 N == Cardinality(members)
                 tried == {x \in members : x.name \in Range(attempted')}
             IN  /\ Cardinality(tried) = IF keep' < N THEN N - keep' ELSE 0
                 /\ \A x \in tried, y \in members \ tried : x.created <= y.created
      ]_vars

C4_Witness ==
    /\ phase = "cleaned" /\ ~list_error
    /\ keep = 1
    /\ Len(attempted) = 2
    /\ failed = {}
    /\ \E x \in engine : HasSuffix(x.name) /\ GroupOf(x.name) = <<"a">> /\ x.created = MaxTime
    /\ \A i \in 1..Len(listed) : listed[i].name \in Range(attempted) => listed[i].created < MaxTime

(***************************************************************************)
(* Properties of a prune in which removals fail.                           *)
(***************************************************************************)
\* the images of a newest-first listing beyond the K newest of their group
ExcessIn(lst, K) ==
    {lst[i].name : i \in {n \in 1..Len(lst) :
        /\ HasSuffix(lst[n].name)
        /\ Cardinality({j \in 1..(n - 1) :
                          /\ HasSuffix(lst[j].name)
                          /\ GroupOf(lst[j].name) = GroupOf(lst[n].name)}) >= K}}

\* C12: whichever removals fail, cleanup_old_images attempts every excess
\* image of every group: the set of attempted removals is fixed by the
\* listing and the keep count alone, and a failure is one of the attempts.
C12_BestEffort ==
    [][PruneStep =>
        /\ Range(attempted') = ExcessIn(listed', keep')
        /\ failed' \subseteq Range(attempted')
      ]_vars

\* a removal of the first group failed, and a later removal of that group
\* and the removal of a later group were still attempted
C12_Witness ==
    /\ phase = "cleaned" /\ ~list_error
    /\ Len(attempted) = 3
    /\ attempted[1] \in failed
    /\ attempted[2] \notin failed
    /\ GroupOf(attempted[2]) = GroupOf(attempted[1])
    /\ GroupOf(attempted[3]) # GroupOf(attempted[1])

\* a cleanup_old_images call
CleanupStep == phase = "start" /\ phase' = "cleaned"

\* the positions of the attempts that failed / succeeded
Failures(att, fl) == {i \in 1..Len(att) : att[i] \in fl}
Successes(att, fl) == {i \in 1..Len(att) : att[i] \notin fl}

\* C13 as stated: the number cleanup_old_images returns is the number of
\* successful removals that come before the first failed one.
C13_CountStopsAtFirstFailure ==
    [][CleanupStep =>
        removed_count' = Cardinality({i \in Successes(attempted', failed') :
                             \A f \in Failures(attempted', failed') : i < f})
      ]_vars

\* C13 amended: the number cleanup_old_images returns is the number of all
\* successful removals, those that come after a failed one included.
C13_CountsEverySuccess ==
    [][CleanupStep =>
        removed_count' = Cardinality(Successes(attempted', failed'))
      ]_vars

\* a removal failed, a later one succeeded and was counted
C13_Witness ==
    /\ phase = "cleaned"
    /\ Len(attempted) = 2
    /\ attempted[1] \in failed
    /\ attempted[2] \notin failed
    /\ removed_count = 1

(***************************************************************************)
(* Properties of the local listing.                                        *)
(***************************************************************************)
\* the tag starts with "inoyb/"
InNamespace(tag) ==
    Len(tag) >= Len(Namespace) /\ \A i \in 1..Len(Namespace) : tag[i] = Namespace[i]

\* text occurs in the tag
HasSubstring(tag, text) ==
    \E k \in 0..(Len(tag) - Len(text)) : \A j \in 1..Len(text) : tag[k + j] = text[j]

\* the images of the engine a listing with filter f is to show
Wanted(f) ==
    {x \in engine : InNamespace(x.name) /\ (f.given => HasSubstring(x.name, f.text))}

\* a list_local_images call has returned and its listing succeeded
Listed == phase = "listed" /\ ~list_error

\* C11: list_local_images(filter) returns exactly the engine's images whose
\* tag starts with "inoyb/" and, when a filter is given, contains the
\* filter; each of them once; no tag outside the namespace; newest first.
C11_LocalListing ==
    Listed =>
        /\ Range(listed) = Wanted(list_filter)
        /\ Len(listed) = Cardinality(Wanted(list_filter))
        /\ \A i \in 1..Len(listed) : InNamespace(listed[i].name)
        /\ \A i, j \in 1..Len(listed) : i < j => listed[i].created >= listed[j].created

C11_Witness ==
    /\ Listed
    /\ list_filter = [given |-> TRUE, text |-> <<"a", "-">>]
    /\ Len(listed) = 2
    /\ listed[1].created > listed[2].created
    /\ \E x \in engine : x.name = <<"r", "/", "a", "-", "1">>

(***************************************************************************)
(* Properties of the base image.                                           *)
(***************************************************************************)
\* the versions the claim says the lookup table holds, 3.8 to 3.12
TableVersions == {[major |-> 3, minor |-> m] : m \in 8..12}

\* the newest of them
NewestKnown ==
    CHOOSE v \in TableVersions : \A w \in TableVersions : w.minor <= v.minor

\* the base image of a version
ImageOf(v) == "python:" \o ToString(v.major) \o "." \o ToString(v.minor) \o "-slim"

\* C14: get_python_version maps a version of the table to the base image of
\* that version and every other version to the base image of the newest
\* version of the table.
C14_BaseImage ==
    base_image # "" =>
        base_image = IF version_info \in TableVersions THEN ImageOf(version_info)
                     ELSE ImageOf(NewestKnown)

(***************************************************************************)
(* Properties of the image name.                                           *)
(***************************************************************************)
\* what the claim says a character of the model name becomes
Sanitized(c) == IF c \in {" ", "_"} THEN "-" ELSE LowerChar(c)

\* the name without its last segment and the separator before it
Prefix(n) == SubSeq(n, 1, Len(n) - SuffixLen - 1)

Suffix(n) == SubSeq(n, Len(n) - SuffixLen + 1, Len(n))

\* C10: every generated name is the model name lower-cased with each space
\* and each underscore replaced by "-", then "-", then exactly 8 lowercase
\* hexadecimal characters; "My Model_X" gives the prefix "my-model-x"; two
\* builds of one model differ only in the last segment.
C10_ImageName ==
    /\ \A k \in 1..Len(image_names) :
         LET n == image_names[k]
         IN  /\ Len(n) = Len(model_name) + 1 + 8
             /\ \A i \in 1..Len(model_name) : n[i] = Sanitized(model_name[i])
             /\ n[Len(model_name) + 1] = "-"
             /\ Range(Suffix(n)) \subseteq HexDigits
             /\ model_name = MyModelX =>
                   Prefix(n) = <<"m", "y", "-", "m", "o", "d", "e", "l", "-", "x">>
    /\ Len(image_names) = 2 => Prefix(image_names[1]) = Prefix(image_names[2])

C10_Witness ==
    /\ model_name = MyModelX
    /\ Len(image_names) = 2
    /\ Suffix(image_names[1]) # Suffix(image_names[2])

(***************************************************************************)
(* Properties of build_image and of the command layer.                     *)
(***************************************************************************)
\* build_image has returned or has let its exception go on
BuildImageLeft == pc \in {"built", "handler", "exited"}

\* C7: once build_image has written Dockerfile.inoyb, the file is gone when
\* build_image returns or propagates its error, on every path: the engine
\* build succeeds, the engine build raises, the write fails part-way, the
\* log iteration raises.
C7_DockerfileRemoved == (wrote /\ BuildImageLeft) => dockerfile = "absent"

C7_Witness ==
    /\ pc = "exited" /\ cmd.name = "build"
    /\ wrote /\ build_calls = 1
    /\ pending_exc = "build_error"
    /\ dockerfile = "absent"

\* C8: the engine build is invoked only after validate_project succeeded;
\* in deploy the push is invoked only after the build returned its tag;
\* after a failed validation no Dockerfile is written, no engine build is
\* invoked and no push is attempted.
C8_ValidateThenBuildThenPush ==
    /\ build_calls > 0 => vresult.ok
    /\ (cmd.name = "deploy" /\ push_calls > 0) =>
         /\ vresult.ok
         /\ build_calls > 0
         /\ pending_exc = ""
         /\ \E img \in engine : img.name = image_tag
    /\ (vresult # NoResult /\ ~vresult.ok) =>
         /\ ~wrote
         /\ dockerfile \notin {"partial", "written"}
         /\ build_calls = 0
         /\ push_calls = 0

C8_Witness ==
    /\ cmd.name = "deploy" /\ pc = "exited"
    /\ build_calls = 1 /\ push_calls = 1
    /\ exit_code = 0

\* C9: a command exits with a non-zero status whenever it reported a
\* failure, and with status zero in every other run.
C9_ExitStatus == pc = "exited" => (exit_code # 0 <=> reported)

====
